---- MODULE Spec2Model ----
(***************************************************************************)
(* Developer onboarding of BCCE: the single-path onboarder                 *)
(* (enterprise/onboard-developer.py, BCCEDeveloperOnboarder) and the       *)
(* unified onboarder (enterprise/unified-onboarding-enhanced.py,           *)
(* UnifiedBCCEOnboarder).  One action per external call site or pure       *)
(* stage; the stores are those of the identity, storage, key and budget    *)
(* services; a service call succeeds or fails nondeterministically within  *)
(* what the store contents allow.                                          *)
(***************************************************************************)
EXTENDS Integers, Sequences, FiniteSets, TLC

VARIABLES
    config,          \* organization config, read-only for the behaviour
    script,          \* "single" | "unified": which onboarder is deployed
    runs,            \* number of the current run (runs are numbered as they start)
    parked,          \* a second run in flight, while the current one steps
    email, department, access_tier,   \* the current request
    dry_run,         \* --dry-run of the current request
    pc,              \* position of the current run
    status,          \* "idle" | "running" | "validated" | "success" | "failed"
    error,           \* the exception the orchestrator or the dry run has caught
    exit_code,       \* exit status of the process, -1 while it runs
    calls,           \* external calls issued by the current run, in order
    looked_up,       \* the username the current run's duplicate check asked for
    done,            \* stages of the current run that have returned, in order
    user_info, group_info, resources, budget_info, monitoring, config_files,  \* stage results
    iamUsers, accessKeys, userPolicies, iamGroups, groupPolicies, iamMembers,
    cognitoUsers, cognitoGroups, cognitoMembers,
    buckets, versioned, bucketPolicies, kmsKeys, budgets, objects,
    test_results,    \* integration tester: one entry per phase that has run
    failed_tests,    \* integration tester: names of the phases that failed
    report,          \* integration tester: the report of run_all_tests
    tester_pc,       \* integration tester: "idle" | "phases" | "report" | "main" | "exited"
    tester_exit      \* integration tester: exit status, -1 while it runs

results   == <<user_info, group_info, resources, budget_info, monitoring, config_files>>
tester    == <<test_results, failed_tests, report, tester_pc, tester_exit>>
fixed     == <<config, script, runs, parked, email, department, access_tier,
               dry_run, tester, looked_up>>
iamStore  == <<iamUsers, accessKeys, userPolicies, iamGroups, groupPolicies, iamMembers>>
cogStore  == <<cognitoUsers, cognitoGroups, cognitoMembers>>
s3Store   == <<buckets, versioned, bucketPolicies, objects>>
stores    == <<iamStore, cogStore, s3Store, kmsKeys, budgets>>
vars      == <<fixed, pc, status, error, exit_code, calls, done, results, stores>>

----------------------------------------------------------------------------
\* Bounds of the model.

MaxRuns == 2

\* datetime.utcnow() readings: the clock has moved on between two runs
Times == 1..MaxRuns

\* None of Python; every name of the model is a tuple, so None is the empty one.
None == <<>>
Unset == [unset |-> TRUE]

Emails == { <<"d", "@", "a", ".", "c">>,
            <<"d", ".", "a", "@", "c">>,
            <<"e", "@", "a", ".", "c">> }
RequestDepartments == {"engineering", "research", "marketing"}
\* --access-tier: choices=['sandbox', 'integration', 'production']
RequestTiers == {"sandbox", "integration", "production"}

Departments ==
    [d \in {"engineering", "research"} |->
        IF d = "engineering"
        THEN [budget_limit |-> 500, access_tiers |-> {"sandbox", "integration"}]
        ELSE [budget_limit |-> 50]]

OrgConfigs ==
    { [departments |-> Departments, domain |-> "company.com",
       analytics_bucket |-> b] : b \in {None, <<"bcce-analytics">>} }

AccountId8 == "12345678"

\* --manager-email of every request
ManagerEmail == <<"m", "@", "a", ".", "c">>

----------------------------------------------------------------------------
\* Pure helpers.

\* str.replace(old, new) on a string held as a tuple of characters
Replace(s, old, new) == [i \in 1..Len(s) |-> IF s[i] = old THEN new ELSE s[i]]

\* email.replace('@', '-').replace('.', '-')
DashedAtOnly(e) == Replace(e, "@", "-")
Dashed(e) == Replace(Replace(e, "@", "-"), ".", "-")

UnifiedUsername(e) == Dashed(e)
SingleUsername(e) == <<"bcce-">> \o Dashed(e)

\* the same name, as the other methods spell it out for themselves:
\* the duplicate checks of the two validations and the group assignment
SingleLookupUsernameUnprefixed(e) == Dashed(e)
SingleLookupUsername(e) == <<"bcce-">> \o Dashed(e)
UnifiedLookupUsername(e) == Dashed(e)
UnifiedGroupUsername(e) == Dashed(e)

\* str.title() on the department and tier words the requests use
Title(w) ==
    CASE w = "engineering" -> "Engineering"
      [] w = "research"    -> "Research"
      [] w = "marketing"   -> "Marketing"
      [] w = "sandbox"     -> "Sandbox"
      [] w = "integration" -> "Integration"
      [] w = "production"  -> "Production"
      [] w = "admin"       -> "Admin"

GroupName(dept, tier) == <<"BCCE-", Title(dept), "-", Title(tier)>>
BucketName(e) == <<"bcce-">> \o Dashed(e) \o <<"-", AccountId8>>
SingleBudgetName(e) == <<"BCCE-">> \o Dashed(e)
UnifiedBudgetName(e) == <<"BCCE-Individual-">> \o Dashed(e)

UserExists(users, name) == \E u \in users : u.name = name

\* email.split('@')[1].split('.')[0]
FirstIndex(s, ch) ==
    IF \E i \in 1..Len(s) : s[i] = ch
    THEN CHOOSE i \in 1..Len(s) : s[i] = ch /\ \A j \in 1..(i - 1) : s[j] # ch
    ELSE 0
SplitAfterAt(e) ==
    LET rest == SubSeq(e, FirstIndex(e, "@") + 1, Len(e))
        k    == FirstIndex(rest, "@")
    IN  IF k = 0 THEN rest ELSE SubSeq(rest, 1, k - 1)
SplitHead(s) ==
    LET k == FirstIndex(s, ".") IN IF k = 0 THEN s ELSE SubSeq(s, 1, k - 1)
DepartmentFromEmail(e) == SplitHead(SplitAfterAt(e))

----------------------------------------------------------------------------
\* What the services answer.  A lookup finds what the store holds or fails;
\* a creation of something that exists fails; any call may fail otherwise.

LookupOutcomes(exists, notFound) ==
    IF exists THEN {"ok", "error"} ELSE {notFound, "error"}
CreateOutcomes(exists) == IF exists THEN {"error"} ELSE {"ok", "error"}
CallOutcomes == {"ok", "error"}

Call(op, out) == calls' = Append(calls, [op |-> op, out |-> out])

----------------------------------------------------------------------------
\* The orchestrators: onboard_developer and onboard_developer_unified.

SingleStagesConfigEarly ==
    <<"validate", "identity", "resources", "config",
      "budget", "monitoring", "notify", "log">>
SingleStages ==
    <<"validate", "identity", "resources", "budget",
      "monitoring", "config", "notify", "log">>
UnifiedStages ==
    <<"validate", "identity", "group", "governance",
      "monitoring", "config", "notify", "log">>
Stages(sc) == IF sc = "single" THEN SingleStages ELSE UnifiedStages

\* first call site of each stage
EntryPc(sc, stage) ==
    IF sc = "single"
    THEN CASE stage = "validate"   -> "s_validate"
           [] stage = "identity"   -> "s_create_user"
           [] stage = "resources"  -> "s_create_bucket"
           [] stage = "budget"     -> "s_create_budget"
           [] stage = "monitoring" -> "s_monitoring"
           [] stage = "config"     -> "s_config"
           [] stage = "notify"     -> "s_notify"
           [] stage = "log"        -> "s_log"
    ELSE CASE stage = "validate"   -> "u_validate"
           [] stage = "identity"   -> "u_create_user"
           [] stage = "group"      -> "u_add_user_to_group"
           [] stage = "governance" -> "u_create_budget"
           [] stage = "monitoring" -> "u_monitoring"
           [] stage = "config"     -> "u_config"
           [] stage = "notify"     -> "u_notify"
           [] stage = "log"        -> "u_log"

IndexOf(seq, x) == CHOOSE i \in 1..Len(seq) : seq[i] = x

\* where the orchestrator goes when a stage returns
NextPc(sc, stage) ==
    LET s == Stages(sc)
        i == IndexOf(s, stage)
    IN  IF i = Len(s) THEN "return" ELSE EntryPc(sc, s[i + 1])

\* main: sys.exit(1) in the except handlers; a main that returns exits 0
ExitCode(raised) == IF raised THEN 1 ELSE 0

\* a stage returns: to the orchestrator, or, under --dry-run, to main, which
\* called the validation itself and has nothing left to do
ReturnIgnoringDryRun(stage) ==
    /\ done' = Append(done, stage)
    /\ pc' = NextPc(script, stage)
    /\ UNCHANGED <<status, exit_code, error>>
Return(stage) ==
    /\ done' = Append(done, stage)
    /\ IF dry_run
       THEN /\ status' = "validated"
            /\ pc' = "exited"
            /\ exit_code' = ExitCode(FALSE)
       ELSE /\ pc' = NextPc(script, stage)
            /\ UNCHANGED <<status, exit_code>>
    /\ UNCHANGED error

\* the next call site inside a stage
Goto(p) == pc' = p /\ UNCHANGED <<status, error, exit_code, done>>

\* except Exception as e: logger.error(...); raise -- the run ends, nothing is
\* undone; main logs the exception and exits
RaiseWithRollback(err) ==
    /\ status' = "failed"
    /\ error' = err
    /\ pc' = "aborted"
    /\ exit_code' = ExitCode(TRUE)
    /\ iamUsers' = {u \in iamUsers : u.email # email}
    /\ cognitoUsers' = {u \in cognitoUsers : u.email # email}
    /\ UNCHANGED <<done, accessKeys, userPolicies, iamGroups, groupPolicies,
                   iamMembers, cognitoGroups, cognitoMembers, s3Store, kmsKeys,
                   budgets>>
Raise(err) ==
    /\ status' = "failed"
    /\ error' = err
    /\ pc' = "aborted"
    /\ exit_code' = ExitCode(TRUE)
    /\ UNCHANGED <<done, stores>>

\* main builds the onboarder before the first stage and outside every try:
\* the constructor asks sts.get_caller_identity for the account, and an
\* exception there ends the process with a traceback, no stage entered
Construct(built) ==
    IF built = "ok"
    THEN /\ status' = "running" /\ exit_code' = -1
         /\ pc' = EntryPc(script, Stages(script)[1])
    ELSE /\ status' = "failed" /\ exit_code' = ExitCode(TRUE)
         /\ pc' = "aborted"

\* a new run of the deployed script: one process, one request
Start(e, d, t, dr) ==
    /\ status # "running"
    /\ runs < MaxRuns
    /\ runs' = runs + 1
    /\ email' = e /\ department' = d /\ access_tier' = t /\ dry_run' = dr
    /\ error' = "none"
    /\ \E built \in CallOutcomes : Construct(built)
    /\ calls' = <<>> /\ done' = <<>> /\ looked_up' = None
    /\ user_info' = Unset /\ group_info' = Unset /\ resources' = Unset
    /\ budget_info' = Unset /\ monitoring' = Unset /\ config_files' = Unset
    /\ UNCHANGED <<config, script, parked, tester, stores>>

----------------------------------------------------------------------------
\* Single-path onboarder: BCCEDeveloperOnboarder.

\* department not in self.config.get('departments', {}).keys()
DepartmentValid(cfg, dept) == dept \in DOMAIN cfg.departments

\* valid_tiers = ['sandbox', 'integration', 'production']
SingleTierValid(cfg, dept, tier) ==
    tier \in {"sandbox", "integration", "production"}

\* try: get_user(...); raise ValueError(...)
\* except NoSuchEntityException: pass
SingleLookupVerdictWithoutRaise(out) ==
    CASE out = "ok"           -> "pass"
      [] out = "NoSuchEntity" -> "pass"
      [] OTHER                -> "ClientError: iam.get_user"
SingleLookupVerdictSwallowing(out) ==
    CASE out = "ok"           -> "pass"
      [] out = "NoSuchEntity" -> "pass"
      [] OTHER                -> "pass"
SingleLookupVerdict(out) ==
    CASE out = "ok"           -> "ValueError: user already exists"
      [] out = "NoSuchEntity" -> "pass"
      [] OTHER                -> "ClientError: iam.get_user"

SValidate ==
    /\ script = "single" /\ pc = "s_validate"
    /\ \/ /\ ~(/\ DepartmentValid(config, department)
               /\ SingleTierValid(config, department, access_tier))
          /\ Raise(IF ~DepartmentValid(config, department)
                   THEN "ValueError: invalid department"
                   ELSE "ValueError: invalid access tier")
          /\ UNCHANGED <<calls, looked_up>>
       \/ /\ DepartmentValid(config, department)
          /\ SingleTierValid(config, department, access_tier)
          /\ looked_up' = SingleLookupUsername(email)
          /\ \E out \in LookupOutcomes(UserExists(iamUsers, looked_up'),
                                       "NoSuchEntity") :
                /\ Call("iam.get_user", out)
                /\ IF SingleLookupVerdict(out) = "pass"
                   THEN Return("validate") /\ UNCHANGED stores
                   ELSE Raise(SingleLookupVerdict(out))
    /\ UNCHANGED <<config, script, runs, parked, email, department, access_tier,
                   dry_run, tester, results>>

\* policy_mapping.get(access_tier)
PolicyArnForTier(tier) ==
    IF tier \in {"sandbox", "integration", "production"}
    THEN <<"policy/BCCE-", Title(tier), "-Developer-Policy">>
    ELSE None

SCreateUser ==
    /\ script = "single" /\ pc = "s_create_user"
    /\ LET username == SingleUsername(email) IN
       \E out \in CreateOutcomes(UserExists(iamUsers, username)) :
          /\ Call("iam.create_user", out)
          /\ IF out = "ok"
             THEN /\ iamUsers' = iamUsers \cup
                        {[name |-> username, email |-> email,
                          department |-> department, access_tier |-> access_tier]}
                  /\ Goto("s_create_access_key")
                  /\ UNCHANGED <<accessKeys, userPolicies, iamGroups, groupPolicies,
                                 iamMembers, cogStore, s3Store, kmsKeys, budgets>>
             ELSE Raise("ClientError: iam.create_user")
    /\ UNCHANGED <<fixed, results>>

\* the access key the service hands out in this run
AccessKeyId(n) == <<"AKIA", n>>

SCreateAccessKey ==
    /\ script = "single" /\ pc = "s_create_access_key"
    /\ \E out \in CallOutcomes :
          /\ Call("iam.create_access_key", out)
          /\ IF out = "ok"
             THEN /\ accessKeys' = accessKeys \cup
                        {[user |-> SingleUsername(email), id |-> AccessKeyId(runs)]}
                  /\ Goto("s_attach_user_policy")
                  /\ UNCHANGED <<iamUsers, userPolicies, iamGroups, groupPolicies,
                                 iamMembers, cogStore, s3Store, kmsKeys, budgets>>
             ELSE Raise("ClientError: iam.create_access_key")
    /\ UNCHANGED <<fixed, results>>

SAttachUserPolicy ==
    /\ script = "single" /\ pc = "s_attach_user_policy"
    /\ LET policy_arn == PolicyArnForTier(access_tier) IN
       \E out \in (IF policy_arn = None THEN {"error"} ELSE CallOutcomes) :
          /\ Call("iam.attach_user_policy", out)
          /\ IF out = "ok"
             THEN /\ userPolicies' = userPolicies \cup
                        {<<SingleUsername(email), policy_arn>>}
                  /\ Goto("s_add_user_to_group")
                  /\ UNCHANGED <<iamUsers, accessKeys, iamGroups, groupPolicies,
                                 iamMembers, cogStore, s3Store, kmsKeys, budgets>>
             ELSE Raise("ClientError: iam.attach_user_policy")
    /\ UNCHANGED <<fixed, results>>

\* the dictionary _create_iam_user returns
SingleUserInfo(e, dept, tier, n) ==
    [username |-> SingleUsername(e),
     access_key_id |-> AccessKeyId(n),
     policy_arn |-> PolicyArnForTier(tier),
     group_name |-> GroupName(dept, tier)]

\* try: add_user_to_group(...)
\* except NoSuchEntityException: create the group, then add again
SAddUserToGroupIgnoringMissing ==
    /\ script = "single" /\ pc = "s_add_user_to_group"
    /\ LET group_name == GroupName(department, access_tier) IN
       \E out \in LookupOutcomes(group_name \in iamGroups, "NoSuchEntity") :
          /\ Call("iam.add_user_to_group", out)
          /\ CASE out = "ok" ->
                    /\ iamMembers' = iamMembers \cup
                          {<<group_name, SingleUsername(email)>>}
                    /\ user_info' = SingleUserInfo(email, department, access_tier, runs)
                    /\ Return("identity")
                    /\ UNCHANGED <<iamUsers, accessKeys, userPolicies, iamGroups,
                                   groupPolicies, cogStore, s3Store, kmsKeys, budgets>>
               [] out = "NoSuchEntity" ->
                    /\ user_info' = SingleUserInfo(email, department, access_tier, runs)
                    /\ Return("identity")
                    /\ UNCHANGED stores
               [] OTHER ->
                    /\ Raise("ClientError: iam.add_user_to_group")
                    /\ UNCHANGED user_info
    /\ UNCHANGED <<fixed, group_info, resources, budget_info, monitoring, config_files>>
SAddUserToGroup ==
    /\ script = "single" /\ pc = "s_add_user_to_group"
    /\ LET group_name == GroupName(department, access_tier) IN
       \E out \in LookupOutcomes(group_name \in iamGroups, "NoSuchEntity") :
          /\ Call("iam.add_user_to_group", out)
          /\ CASE out = "ok" ->
                    /\ iamMembers' = iamMembers \cup
                          {<<group_name, SingleUsername(email)>>}
                    /\ user_info' = SingleUserInfo(email, department, access_tier, runs)
                    /\ Return("identity")
                    /\ UNCHANGED <<iamUsers, accessKeys, userPolicies, iamGroups,
                                   groupPolicies, cogStore, s3Store, kmsKeys, budgets>>
               [] out = "NoSuchEntity" ->
                    /\ Goto("s_create_group")
                    /\ UNCHANGED <<user_info, stores>>
               [] OTHER ->
                    /\ Raise("ClientError: iam.add_user_to_group")
                    /\ UNCHANGED user_info
    /\ UNCHANGED <<fixed, group_info, resources, budget_info, monitoring, config_files>>

\* _create_developer_group: create_group
SCreateGroupIdempotent ==
    /\ script = "single" /\ pc = "s_create_group"
    /\ LET group_name == GroupName(department, access_tier) IN
       \E out \in CallOutcomes :
          /\ Call("iam.create_group", out)
          /\ IF out = "ok"
             THEN /\ iamGroups' = iamGroups \cup {group_name}
                  /\ Goto("s_attach_group_policy")
                  /\ UNCHANGED <<iamUsers, accessKeys, userPolicies, groupPolicies,
                                 iamMembers, cogStore, s3Store, kmsKeys, budgets>>
             ELSE Raise("ClientError: iam.create_group")
    /\ UNCHANGED <<fixed, results>>
SCreateGroup ==
    /\ script = "single" /\ pc = "s_create_group"
    /\ LET group_name == GroupName(department, access_tier) IN
       \E out \in CreateOutcomes(group_name \in iamGroups) :
          /\ Call("iam.create_group", out)
          /\ IF out = "ok"
             THEN /\ iamGroups' = iamGroups \cup {group_name}
                  /\ Goto("s_attach_group_policy")
                  /\ UNCHANGED <<iamUsers, accessKeys, userPolicies, groupPolicies,
                                 iamMembers, cogStore, s3Store, kmsKeys, budgets>>
             ELSE Raise("ClientError: iam.create_group")
    /\ UNCHANGED <<fixed, results>>

\* _create_developer_group: attach_group_policy
SAttachGroupPolicy ==
    /\ script = "single" /\ pc = "s_attach_group_policy"
    /\ LET policy_arn == PolicyArnForTier(access_tier) IN
       \E out \in (IF policy_arn = None THEN {"error"} ELSE CallOutcomes) :
          /\ Call("iam.attach_group_policy", out)
          /\ IF out = "ok"
             THEN /\ groupPolicies' = groupPolicies \cup
                        {<<GroupName(department, access_tier), policy_arn>>}
                  /\ Goto("s_add_user_to_group_2")
                  /\ UNCHANGED <<iamUsers, accessKeys, userPolicies, iamGroups,
                                 iamMembers, cogStore, s3Store, kmsKeys, budgets>>
             ELSE Raise("ClientError: iam.attach_group_policy")
    /\ UNCHANGED <<fixed, results>>

\* the add_user_to_group of the except branch: nothing catches its failure
SAddUserToGroupAgainRetrying ==
    /\ script = "single" /\ pc = "s_add_user_to_group_2"
    /\ LET group_name == GroupName(department, access_tier) IN
       \E out \in LookupOutcomes(group_name \in iamGroups, "NoSuchEntity") :
          /\ Call("iam.add_user_to_group", out)
          /\ IF out = "ok"
             THEN /\ iamMembers' = iamMembers \cup
                        {<<group_name, SingleUsername(email)>>}
                  /\ user_info' = SingleUserInfo(email, department, access_tier, runs)
                  /\ Return("identity")
                  /\ UNCHANGED <<iamUsers, accessKeys, userPolicies, iamGroups,
                                 groupPolicies, cogStore, s3Store, kmsKeys, budgets>>
             ELSE /\ Goto("s_add_user_to_group_2")
                  /\ UNCHANGED <<user_info, stores>>
    /\ UNCHANGED <<fixed, group_info, resources, budget_info, monitoring, config_files>>
SAddUserToGroupAgain ==
    /\ script = "single" /\ pc = "s_add_user_to_group_2"
    /\ LET group_name == GroupName(department, access_tier) IN
       \E out \in LookupOutcomes(group_name \in iamGroups, "NoSuchEntity") :
          /\ Call("iam.add_user_to_group", out)
          /\ IF out = "ok"
             THEN /\ iamMembers' = iamMembers \cup
                        {<<group_name, SingleUsername(email)>>}
                  /\ user_info' = SingleUserInfo(email, department, access_tier, runs)
                  /\ Return("identity")
                  /\ UNCHANGED <<iamUsers, accessKeys, userPolicies, iamGroups,
                                 groupPolicies, cogStore, s3Store, kmsKeys, budgets>>
             ELSE /\ Raise("ClientError: iam.add_user_to_group")
                  /\ UNCHANGED user_info
    /\ UNCHANGED <<fixed, group_info, resources, budget_info, monitoring, config_files>>

\* "Principal": {"AWS": f"arn:aws:iam::{account}:user/bcce-{...}"}
BucketPolicyPrincipal(e) == <<"user/", "bcce-">> \o Dashed(e)

\* except Exception: logger.warning(...); bucket_name = None, and on to the key
\* (the handler's local bucket_name is kept in resources.s3_bucket)
BucketStepFailedRaises ==
    Raise("ClientError: s3") /\ UNCHANGED resources
BucketStepFailed ==
    resources' = [s3_bucket |-> None] /\ Goto("s_create_key")

SCreateBucket ==
    /\ script = "single" /\ pc = "s_create_bucket"
    /\ LET bucket_name == BucketName(email) IN
       \E out \in CreateOutcomes(bucket_name \in buckets) :
          /\ Call("s3.create_bucket", out)
          /\ IF out = "ok"
             THEN /\ buckets' = buckets \cup {bucket_name}
                  /\ resources' = [s3_bucket |-> bucket_name]
                  /\ Goto("s_put_bucket_versioning")
             ELSE /\ BucketStepFailed
                  /\ UNCHANGED buckets
    /\ UNCHANGED <<fixed, user_info, group_info, budget_info, monitoring, config_files,
                   iamStore, cogStore, versioned, bucketPolicies, objects, kmsKeys,
                   budgets>>

SPutBucketVersioning ==
    /\ script = "single" /\ pc = "s_put_bucket_versioning"
    /\ \E out \in CallOutcomes :
          /\ Call("s3.put_bucket_versioning", out)
          /\ IF out = "ok"
             THEN /\ versioned' = versioned \cup {BucketName(email)}
                  /\ Goto("s_put_bucket_policy")
                  /\ UNCHANGED resources
             ELSE /\ BucketStepFailed
                  /\ UNCHANGED versioned
    /\ UNCHANGED <<fixed, user_info, group_info, budget_info, monitoring, config_files,
                   iamStore, cogStore, buckets, bucketPolicies, objects, kmsKeys,
                   budgets>>

SPutBucketPolicy ==
    /\ script = "single" /\ pc = "s_put_bucket_policy"
    /\ \E out \in CallOutcomes :
          /\ Call("s3.put_bucket_policy", out)
          /\ IF out = "ok"
             THEN /\ bucketPolicies' = bucketPolicies \cup
                        {<<BucketName(email), BucketPolicyPrincipal(email)>>}
                  /\ Goto("s_create_key")
                  /\ UNCHANGED resources
             ELSE /\ BucketStepFailed
                  /\ UNCHANGED bucketPolicies
    /\ UNCHANGED <<fixed, user_info, group_info, budget_info, monitoring, config_files,
                   iamStore, cogStore, buckets, versioned, objects, kmsKeys, budgets>>

\* the key the service creates in this run
KmsKeyId(n) == <<"key-", n>>

\* kms.create_key is outside every try: its failure aborts the run
SCreateKey ==
    /\ script = "single" /\ pc = "s_create_key"
    /\ \E out \in CallOutcomes :
          /\ Call("kms.create_key", out)
          /\ IF out = "ok"
             THEN /\ kmsKeys' = kmsKeys \cup
                        {[id |-> KmsKeyId(runs), owner |-> email,
                          department |-> department]}
                  /\ resources' = [s3_bucket |-> resources.s3_bucket,
                                   kms_key_id |-> KmsKeyId(runs)]
                  /\ Goto("s_describe_log_groups")
                  /\ UNCHANGED <<iamStore, cogStore, s3Store, budgets>>
             ELSE /\ Raise("ClientError: kms.create_key")
                  /\ UNCHANGED resources
    /\ UNCHANGED <<fixed, user_info, group_info, budget_info, monitoring, config_files>>

LogGroupName(e) == <<"/bcce/developer/">> \o Dashed(e)

\* try: describe_log_groups(...)  except: pass -- then the return
SDescribeLogGroups ==
    /\ script = "single" /\ pc = "s_describe_log_groups"
    /\ \E out \in CallOutcomes : Call("cloudwatch.describe_log_groups", out)
    /\ resources' = [s3_bucket |-> resources.s3_bucket,
                     kms_key_id |-> resources.kms_key_id,
                     log_group_name |-> LogGroupName(email)]
    /\ Return("resources")
    /\ UNCHANGED <<fixed, user_info, group_info, budget_info, monitoring, config_files,
                   stores>>

\* str(n) for n >= 0, as a tuple of digit characters
RECURSIVE Str(_)
Str(n) ==
    LET d == <<"0", "1", "2", "3", "4", "5", "6", "7", "8", "9">>[(n % 10) + 1]
    IN  IF n < 10 THEN <<d>> ELSE Str(n \div 10) \o <<d>>

\* budget_limits.get(access_tier, 100)
SingleBudgetLimitUnifiedTable(tier) ==
    CASE tier = "sandbox"     -> 100
      [] tier = "integration" -> 500
      [] tier = "production"  -> 1000
      [] OTHER                -> 100
SingleBudgetLimit(tier) ==
    CASE tier = "sandbox"     -> 100
      [] tier = "integration" -> 500
      [] tier = "production"  -> 2000
      [] OTHER                -> 100

\* f"{department}-manager@{self.config.get('domain', 'company.com')}"
ManagerAddress(cfg, dept) ==
    <<dept, "-manager@",
      IF "domain" \in DOMAIN cfg THEN cfg.domain ELSE "company.com">>

\* NotificationsWithSubscribers: NotificationType, Threshold (a percentage),
\* Subscribers' addresses
SingleNotificationsOneRule(cfg, e, dept) ==
    << [type |-> "ACTUAL", threshold |-> 100,
        subscribers |-> <<e, ManagerAddress(cfg, dept)>>] >>
SingleNotifications(cfg, e, dept) ==
    << [type |-> "ACTUAL", threshold |-> 80,  subscribers |-> <<e>>],
       [type |-> "ACTUAL", threshold |-> 100,
        subscribers |-> <<e, ManagerAddress(cfg, dept)>>] >>

\* the Budget and NotificationsWithSubscribers arguments of create_budget
SingleBudget(cfg, e, dept, tier) ==
    [name |-> SingleBudgetName(e),
     amount |-> Str(SingleBudgetLimit(tier)),
     tag_key |-> "Owner", tag_value |-> e,
     notifications |-> SingleNotifications(cfg, e, dept)]

BudgetExists(bs, name) == \E b \in bs : b.name = name

\* except Exception: return {'budget_name': None, 'error': str(e)}
SCreateBudget ==
    /\ script = "single" /\ pc = "s_create_budget"
    /\ \E out \in CreateOutcomes(BudgetExists(budgets, SingleBudgetName(email))) :
          /\ Call("budgets.create_budget", out)
          /\ IF out = "ok"
             THEN /\ budgets' = budgets \cup
                        {SingleBudget(config, email, department, access_tier)}
                  /\ budget_info' = [budget_name |-> SingleBudgetName(email),
                                     budget_limit |-> SingleBudgetLimit(access_tier),
                                     notifications_enabled |-> TRUE]
             ELSE /\ budget_info' = [budget_name |-> None,
                                     error |-> "budgets.create_budget"]
                  /\ UNCHANGED budgets
    /\ Return("budget")
    /\ UNCHANGED <<fixed, user_info, group_info, resources, monitoring, config_files,
                   iamStore, cogStore, s3Store, kmsKeys>>

SMonitoringWithAlarm ==
    /\ script = "single" /\ pc = "s_monitoring"
    /\ monitoring' = [metric_namespace |-> <<"BCCE/Developer/", department>>,
                      dashboard_name |-> <<"BCCE-">> \o Dashed(email),
                      alerting_enabled |-> TRUE]
    /\ Call("cloudwatch.put_metric_alarm", "ok")
    /\ Return("monitoring")
    /\ UNCHANGED <<fixed, user_info, group_info, resources, budget_info,
                   config_files, stores>>
SMonitoring ==
    /\ script = "single" /\ pc = "s_monitoring"
    /\ monitoring' = [metric_namespace |-> <<"BCCE/Developer/", department>>,
                      dashboard_name |-> <<"BCCE-">> \o Dashed(email),
                      alerting_enabled |-> TRUE]
    /\ Return("monitoring")
    /\ UNCHANGED <<fixed, calls, user_info, group_info, resources, budget_info,
                   config_files, stores>>

\* dict.get(key, default): the default only when the key is absent
Get(d, key, default) == IF key \in DOMAIN d THEN d[key] ELSE default

\* bcce_config and env_vars of _generate_config_files, rendered at time t
SingleConfigFiles(e, ui, res, tier, t) ==
    [bcce_config |->
        [access_key_id |-> ui.access_key_id,
         access_tier |-> tier,
         department |-> DepartmentFromEmail(e),
         developer_email |-> e,
         s3_bucket |-> Get(res, "s3_bucket", None),
         kms_key_id |-> Get(res, "kms_key_id", None)],
     env_vars |->
        [generated_on |-> t,
         AWS_ACCESS_KEY_ID |-> ui.access_key_id,
         BCCE_ACCESS_TIER |-> tier,
         BCCE_DEVELOPER_EMAIL |-> e,
         BCCE_S3_BUCKET |-> Get(res, "s3_bucket", <<"">>),
         BCCE_KMS_KEY_ID |-> Get(res, "kms_key_id", <<"">>)]]

\* datetime.utcnow() as the current run reads it
Now == runs

SGenerateConfigFiles ==
    /\ script = "single" /\ pc = "s_config"
    /\ config_files' = SingleConfigFiles(email, user_info, resources, access_tier, Now)
    /\ Return("config")
    /\ UNCHANGED <<fixed, calls, user_info, group_info, resources, budget_info,
                   monitoring, stores>>

\* logger.info only
SSendWelcomeEmail ==
    /\ script = "single" /\ pc = "s_notify"
    /\ Return("notify")
    /\ UNCHANGED <<fixed, calls, results, stores>>

\* logger.info only
SLogOnboardingEvent ==
    /\ script = "single" /\ pc = "s_log"
    /\ Return("log")
    /\ UNCHANGED <<fixed, calls, results, stores>>

\* onboarding_result = {'status': 'success', ...}; return
ReturnResult ==
    /\ pc = "return"
    /\ status' = "success"
    /\ pc' = "finished"
    /\ exit_code' = ExitCode(FALSE)
    /\ UNCHANGED <<fixed, error, calls, done, results, stores>>

----------------------------------------------------------------------------
\* Unified onboarder: UnifiedBCCEOnboarder.

\* departments[department].get('access_tiers', ['sandbox'])
AllowedTiers(cfg, dept) == Get(cfg.departments[dept], "access_tiers", {"sandbox"})

UnifiedTierValidFixedList(cfg, dept, tier) ==
    tier \in {"sandbox", "integration", "production"}
UnifiedTierValid(cfg, dept, tier) == tier \in AllowedTiers(cfg, dept)

\* try: admin_get_user(...); raise ValueError(...)
\* except UserNotFoundException: pass
\* except Exception as e: logger.warning(...)
\* The ValueError is raised inside the try, so the last clause catches it too.
UnifiedLookupVerdict(out) ==
    CASE out = "ok"           -> "pass"
      [] out = "UserNotFound" -> "pass"
      [] OTHER                -> "pass"

UValidate ==
    /\ script = "unified" /\ pc = "u_validate"
    /\ \/ /\ ~DepartmentValid(config, department)
          /\ Raise("ValueError: invalid department")
          /\ UNCHANGED <<calls, looked_up>>
       \/ /\ DepartmentValid(config, department)
          /\ ~UnifiedTierValid(config, department, access_tier)
          /\ Raise("ValueError: invalid access tier")
          /\ UNCHANGED <<calls, looked_up>>
       \/ /\ DepartmentValid(config, department)
          /\ UnifiedTierValid(config, department, access_tier)
          /\ looked_up' = UnifiedLookupUsername(email)
          /\ \E out \in LookupOutcomes(UserExists(cognitoUsers, looked_up'),
                                       "UserNotFound") :
                /\ Call("cognito.admin_get_user", out)
                /\ IF UnifiedLookupVerdict(out) = "pass"
                   THEN Return("validate") /\ UNCHANGED stores
                   ELSE Raise(UnifiedLookupVerdict(out))
    /\ UNCHANGED <<config, script, runs, parked, email, department, access_tier,
                   dry_run, tester, results>>

\* the dictionary _create_cognito_user_enhanced returns
UnifiedUserInfo(cfg, e, dept, tier, mgr) ==
    [username |-> UnifiedUsername(e),
     email |-> e,
     department |-> dept,
     access_tier |-> tier,
     budget_limit |-> Get(Get(cfg.departments, dept, <<>>), "budget_limit", 100),
     manager_email |-> mgr]

UCreateCognitoUserSwallowing ==
    /\ script = "unified" /\ pc = "u_create_user"
    /\ LET ui == UnifiedUserInfo(config, email, department, access_tier, ManagerEmail) IN
       \E out \in CreateOutcomes(UserExists(cognitoUsers, ui.username)) :
          /\ Call("cognito.admin_create_user", out)
          /\ IF out = "ok"
             THEN /\ cognitoUsers' = cognitoUsers \cup
                        {[name |-> ui.username, email |-> ui.email,
                          department |-> ui.department,
                          access_tier |-> ui.access_tier,
                          budget_limit |-> Str(ui.budget_limit),
                          manager_email |-> ui.manager_email]}
                  /\ user_info' = ui
                  /\ Return("identity")
                  /\ UNCHANGED <<iamStore, cognitoGroups, cognitoMembers, s3Store,
                                 kmsKeys, budgets>>
             ELSE /\ user_info' = ui
                  /\ Return("identity")
                  /\ UNCHANGED stores
    /\ UNCHANGED <<fixed, group_info, resources, budget_info, monitoring, config_files>>
\* except Exception: logger.error(...); raise
UCreateCognitoUser ==
    /\ script = "unified" /\ pc = "u_create_user"
    /\ LET ui == UnifiedUserInfo(config, email, department, access_tier, ManagerEmail) IN
       \E out \in CreateOutcomes(UserExists(cognitoUsers, ui.username)) :
          /\ Call("cognito.admin_create_user", out)
          /\ IF out = "ok"
             THEN /\ cognitoUsers' = cognitoUsers \cup
                        {[name |-> ui.username, email |-> ui.email,
                          department |-> ui.department,
                          access_tier |-> ui.access_tier,
                          budget_limit |-> Str(ui.budget_limit),
                          manager_email |-> ui.manager_email]}
                  /\ user_info' = ui
                  /\ Return("identity")
                  /\ UNCHANGED <<iamStore, cognitoGroups, cognitoMembers, s3Store,
                                 kmsKeys, budgets>>
             ELSE /\ Raise("ClientError: cognito.admin_create_user")
                  /\ UNCHANGED user_info
    /\ UNCHANGED <<fixed, group_info, resources, budget_info, monitoring, config_files>>

\* except ResourceNotFoundException: raise / except Exception: raise
UAssignDepartmentGroupSoft ==
    /\ script = "unified" /\ pc = "u_add_user_to_group"
    /\ LET group_name == department IN
       \E out \in LookupOutcomes(group_name \in cognitoGroups, "ResourceNotFound") :
          /\ Call("cognito.admin_add_user_to_group", out)
          /\ IF out = "ok"
             THEN /\ cognitoMembers' = cognitoMembers \cup
                        {<<group_name, UnifiedGroupUsername(email)>>}
                  /\ group_info' = [group_name |-> group_name, group_assigned |-> TRUE,
                                    department |-> department]
             ELSE /\ group_info' = [group_name |-> None, group_assigned |-> FALSE,
                                    department |-> department]
                  /\ UNCHANGED cognitoMembers
          /\ Return("group")
          /\ UNCHANGED <<iamStore, cognitoUsers, cognitoGroups, s3Store, kmsKeys,
                         budgets>>
    /\ UNCHANGED <<fixed, user_info, resources, budget_info, monitoring, config_files>>
UAssignDepartmentGroup ==
    /\ script = "unified" /\ pc = "u_add_user_to_group"
    /\ LET group_name == department IN
       \E out \in LookupOutcomes(group_name \in cognitoGroups, "ResourceNotFound") :
          /\ Call("cognito.admin_add_user_to_group", out)
          /\ IF out = "ok"
             THEN /\ cognitoMembers' = cognitoMembers \cup
                        {<<group_name, UnifiedGroupUsername(email)>>}
                  /\ group_info' = [group_name |-> group_name, group_assigned |-> TRUE,
                                    department |-> department]
                  /\ Return("group")
                  /\ UNCHANGED <<iamStore, cognitoUsers, cognitoGroups, s3Store,
                                 kmsKeys, budgets>>
             ELSE /\ Raise("ClientError: cognito.admin_add_user_to_group")
                  /\ UNCHANGED group_info
    /\ UNCHANGED <<fixed, user_info, resources, budget_info, monitoring, config_files>>

\* tier_limits.get(access_tier, 100)
UnifiedBudgetLimit(tier) ==
    CASE tier = "sandbox"     -> 100
      [] tier = "integration" -> 500
      [] tier = "production"  -> 1000
      [] OTHER                -> 100

UnifiedNotifications(e) ==
    << [type |-> "ACTUAL", threshold |-> 80,  subscribers |-> <<e>>],
       [type |-> "ACTUAL", threshold |-> 100, subscribers |-> <<e>>] >>

UnifiedBudget(e, tier) ==
    [name |-> UnifiedBudgetName(e),
     amount |-> Str(UnifiedBudgetLimit(tier)),
     tag_key |-> "BCCEUser", tag_value |-> e,
     notifications |-> UnifiedNotifications(e)]

\* what _setup_individual_budget returns when create_budget raised
UnifiedBudgetFailure ==
    [budget_name |-> None, error |-> "budgets.create_budget", created |-> FALSE]

\* _setup_individual_budget
USetupIndividualBudget ==
    /\ script = "unified" /\ pc = "u_create_budget"
    /\ \E out \in CreateOutcomes(BudgetExists(budgets, UnifiedBudgetName(email))) :
          /\ Call("budgets.create_budget", out)
          /\ IF out = "ok"
             THEN /\ budgets' = budgets \cup {UnifiedBudget(email, access_tier)}
                  /\ budget_info' = [budget_name |-> UnifiedBudgetName(email),
                                     budget_limit |-> UnifiedBudgetLimit(access_tier),
                                     created |-> TRUE]
             ELSE /\ budget_info' = UnifiedBudgetFailure
                  /\ UNCHANGED budgets
    /\ Goto("u_analytics")
    /\ UNCHANGED <<fixed, user_info, group_info, resources, monitoring, config_files,
                   iamStore, cogStore, s3Store, kmsKeys>>

AnalyticsConfigKey(e) == <<"configs/users/">> \o Dashed(e) \o <<"/analytics-config.json">>

\* _setup_analytics_tracking: if self.analytics_bucket: put_object(...), any
\* exception logged and dropped
USetupAnalyticsTrackingUnguarded ==
    /\ script = "unified" /\ pc = "u_analytics"
    /\ \E out \in CallOutcomes :
          /\ Call("s3.put_object analytics-config", out)
          /\ objects' = IF out = "ok"
                        THEN objects \cup
                             {<<config.analytics_bucket, AnalyticsConfigKey(email)>>}
                        ELSE objects
    /\ Goto("u_custom_metrics")
    /\ UNCHANGED <<fixed, results, iamStore, cogStore, buckets, versioned,
                   bucketPolicies, kmsKeys, budgets>>
USetupAnalyticsTracking ==
    /\ script = "unified" /\ pc = "u_analytics"
    /\ \/ /\ config.analytics_bucket # None
          /\ \E out \in CallOutcomes :
                /\ Call("s3.put_object analytics-config", out)
                /\ objects' = IF out = "ok"
                              THEN objects \cup
                                   {<<config.analytics_bucket, AnalyticsConfigKey(email)>>}
                              ELSE objects
       \/ /\ config.analytics_bucket = None
          /\ UNCHANGED <<calls, objects>>
    /\ Goto("u_custom_metrics")
    /\ UNCHANGED <<fixed, results, iamStore, cogStore, buckets, versioned,
                   bucketPolicies, kmsKeys, budgets>>

\* _setup_custom_metrics, then the return of _setup_governance_resources
USetupCustomMetrics ==
    /\ script = "unified" /\ pc = "u_custom_metrics"
    /\ resources' = [s3_user_prefix |-> <<"users/">> \o Dashed(email),
                     analytics_bucket |-> config.analytics_bucket,
                     individual_budget |-> budget_info]
    /\ Return("governance")
    /\ UNCHANGED <<fixed, calls, user_info, group_info, budget_info, monitoring,
                   config_files, stores>>

USetupEnhancedMonitoring ==
    /\ script = "unified" /\ pc = "u_monitoring"
    /\ monitoring' = [user_email |-> email, department |-> department,
                      access_tier |-> access_tier,
                      dashboard_name |-> <<"BCCE-">> \o Dashed(email),
                      cost_alerts |-> access_tier \in {"integration", "production"}]
    /\ Return("monitoring")
    /\ UNCHANGED <<fixed, calls, user_info, group_info, resources, budget_info,
                   config_files, stores>>

\* the getting-started guide reads individual_budget['budget_limit']
GuideRenders(gov) == "budget_limit" \in DOMAIN gov.individual_budget

\* unified_config and env_vars of _generate_unified_config, rendered at time t
UnifiedConfigFiles(ui, gov, tier, t) ==
    [unified_config |->
        [username |-> ui.username,
         access_tier |-> tier,
         department |-> ui.department,
         budget_limit |-> ui.budget_limit,
         analytics_bucket |-> gov.analytics_bucket,
         individual_budget |-> gov.individual_budget.budget_name],
     env_vars |->
        [generated_on |-> t,
         COGNITO_USERNAME |-> ui.username,
         BCCE_ACCESS_TIER |-> tier,
         BCCE_DEPARTMENT |-> ui.department,
         BCCE_ANALYTICS_BUCKET |-> gov.analytics_bucket,
         BCCE_BUDGET_LIMIT |-> Str(ui.budget_limit),
         BCCE_INDIVIDUAL_BUDGET |-> gov.individual_budget.budget_name]]

UGenerateUnifiedConfig ==
    /\ script = "unified" /\ pc = "u_config"
    /\ IF GuideRenders(resources)
       THEN /\ config_files' =
                  UnifiedConfigFiles(user_info, resources, access_tier, Now)
            /\ Return("config")
            /\ UNCHANGED stores
       ELSE /\ Raise("KeyError: budget_limit")
            /\ UNCHANGED config_files
    /\ UNCHANGED <<fixed, calls, user_info, group_info, resources, budget_info,
                   monitoring>>

\* logger.info only
USendUnifiedWelcome ==
    /\ script = "unified" /\ pc = "u_notify"
    /\ Return("notify")
    /\ UNCHANGED <<fixed, calls, results, stores>>

OnboardingEventKey(e, t) == <<"events/onboarding/", t>> \o Dashed(e) \o <<".json">>

\* _log_unified_onboarding_event: if self.analytics_bucket: put_object(...), any
\* exception logged and dropped
ULogUnifiedOnboardingEvent ==
    /\ script = "unified" /\ pc = "u_log"
    /\ \/ /\ config.analytics_bucket # None
          /\ \E out \in CallOutcomes :
                /\ Call("s3.put_object onboarding-event", out)
                /\ objects' = IF out = "ok"
                              THEN objects \cup
                                   {<<config.analytics_bucket, OnboardingEventKey(email, Now)>>}
                              ELSE objects
       \/ /\ config.analytics_bucket = None
          /\ UNCHANGED <<calls, objects>>
    /\ Return("log")
    /\ UNCHANGED <<fixed, results, iamStore, cogStore, buckets, versioned,
                   bucketPolicies, kmsKeys, budgets>>

----------------------------------------------------------------------------
\* The deployment: one script, its configuration, the stores as provisioned by
\* Terraform (no user yet; the Cognito department groups may be missing).

Init ==
    /\ script \in {"single", "unified"}
    /\ config \in OrgConfigs
    /\ cognitoGroups \in {{"engineering"}, {"engineering", "research"}}
    /\ script = "single" =>
          config.analytics_bucket = None /\ cognitoGroups = {"engineering"}
    /\ runs = 0 /\ parked = Unset
    /\ email = None /\ department = "none" /\ access_tier = "none"
    /\ dry_run = FALSE
    /\ pc = "idle" /\ status = "idle" /\ error = "none" /\ exit_code = -1
    /\ calls = <<>> /\ done = <<>> /\ looked_up = None
    /\ user_info = Unset /\ group_info = Unset /\ resources = Unset
    /\ budget_info = Unset /\ monitoring = Unset /\ config_files = Unset
    /\ iamUsers = {} /\ accessKeys = {} /\ userPolicies = {}
    /\ iamGroups = {} /\ groupPolicies = {} /\ iamMembers = {}
    /\ cognitoUsers = {} /\ cognitoMembers = {}
    /\ buckets = {} /\ versioned = {} /\ bucketPolicies = {}
    /\ kmsKeys = {} /\ budgets = {} /\ objects = {}
    /\ test_results = <<>> /\ failed_tests = <<>> /\ report = Unset
    /\ tester_pc = "idle" /\ tester_exit = -1

StartRun ==
    \E e \in Emails, d \in RequestDepartments, t \in RequestTiers :
       Start(e, d, t, FALSE)

Next ==
    \/ StartRun
    \/ SValidate \/ SCreateUser \/ SCreateAccessKey \/ SAttachUserPolicy
    \/ SAddUserToGroup \/ SCreateGroup \/ SAttachGroupPolicy \/ SAddUserToGroupAgain
    \/ SCreateBucket \/ SPutBucketVersioning \/ SPutBucketPolicy \/ SCreateKey
    \/ SDescribeLogGroups \/ SCreateBudget \/ SMonitoring \/ SGenerateConfigFiles
    \/ SSendWelcomeEmail \/ SLogOnboardingEvent
    \/ UValidate \/ UCreateCognitoUser \/ UAssignDepartmentGroup
    \/ USetupIndividualBudget \/ USetupAnalyticsTracking \/ USetupCustomMetrics
    \/ USetupEnhancedMonitoring \/ UGenerateUnifiedConfig \/ USendUnifiedWelcome
    \/ ULogUnifiedOnboardingEvent
    \/ ReturnResult

Spec == Init /\ [][Next]_vars

----------------------------------------------------------------------------
\* The scripts as main runs them, --dry-run included: a dry run is one more
\* process, started between the others, against the stores they have left.

StartDryRun ==
    \E e \in Emails, d \in RequestDepartments, t \in RequestTiers :
       Start(e, d, t, TRUE)

NextMain == Next \/ StartDryRun

SpecMain == Init /\ [][NextMain]_vars

----------------------------------------------------------------------------
\* The budget methods taken on their own: _setup_budget_controls and
\* _setup_individual_budget take the department and tier as arguments and
\* check neither, so they are exercised here with every argument value, a
\* tier no table lists included. The orchestrators call them only after the
\* validation, with one of the three tiers main accepts: this specification
\* covers more calls than the program makes, so what holds in all of its
\* states holds in the program's, while a state only it reaches is no state
\* of the program and refutes nothing.

AnyTiers == RequestTiers \cup {"admin"}

StagePcs == {"s_create_budget", "u_create_budget"}

DirectStages(sc) ==
    IF sc = "single" THEN {"budget"} ELSE {"governance"}

\* one call of a stage method: the call starts at the method's first line and
\* is over when control leaves the method
Invoke(stage, e, d, t) ==
    /\ pc \notin StagePcs
    /\ runs < MaxRuns
    /\ runs' = runs + 1
    /\ email' = e /\ department' = d /\ access_tier' = t /\ dry_run' = FALSE
    /\ status' = "running" /\ error' = "none" /\ exit_code' = -1
    /\ pc' = EntryPc(script, stage)
    /\ calls' = <<>> /\ done' = <<>> /\ looked_up' = None
    /\ user_info' = Unset /\ group_info' = Unset /\ resources' = Unset
    /\ budget_info' = Unset /\ monitoring' = Unset /\ config_files' = Unset
    /\ UNCHANGED <<config, script, parked, tester, stores>>

InvokeStage ==
    \E stage \in DirectStages(script), e \in Emails, d \in RequestDepartments,
       t \in AnyTiers : Invoke(stage, e, d, t)

NextStages ==
    \/ InvokeStage
    \/ SCreateBudget
    \/ USetupIndividualBudget

SpecStages == Init /\ [][NextStages]_vars

----------------------------------------------------------------------------
\* Two runs of the single-path script in flight at once: two processes
\* against the same identity store, their calls interleaved in any order.
\* Each process is followed up to the return of its identity stage.

RaceDepartments == {"engineering", "marketing"}
RaceTiers == {"sandbox", "integration"}

\* everything a process holds of its run
Locals ==
    [runs |-> runs, email |-> email, department |-> department,
     access_tier |-> access_tier, dry_run |-> dry_run, pc |-> pc,
     status |-> status, error |-> error, exit_code |-> exit_code,
     calls |-> calls, looked_up |-> looked_up, done |-> done,
     user_info |-> user_info,
     group_info |-> group_info, resources |-> resources,
     budget_info |-> budget_info, monitoring |-> monitoring,
     config_files |-> config_files]

\* a process is launched, while another may be in the middle of its run
StartInRace(e, d, t) ==
    /\ script = "single"
    /\ parked = Unset
    /\ runs < MaxRuns
    /\ parked' = IF status = "running" THEN Locals ELSE Unset
    /\ runs' = runs + 1
    /\ email' = e /\ department' = d /\ access_tier' = t /\ dry_run' = FALSE
    /\ error' = "none"
    /\ \E built \in CallOutcomes : Construct(built)
    /\ calls' = <<>> /\ done' = <<>> /\ looked_up' = None
    /\ user_info' = Unset /\ group_info' = Unset /\ resources' = Unset
    /\ budget_info' = Unset /\ monitoring' = Unset /\ config_files' = Unset
    /\ UNCHANGED <<config, script, tester, stores>>

StartRaceRun ==
    \E e \in Emails, d \in RaceDepartments, t \in RaceTiers : StartInRace(e, d, t)

\* the scheduler takes the other process
Switch ==
    /\ parked # Unset
    /\ parked' = Locals
    /\ runs' = parked.runs
    /\ email' = parked.email /\ department' = parked.department
    /\ access_tier' = parked.access_tier /\ dry_run' = parked.dry_run
    /\ pc' = parked.pc /\ status' = parked.status /\ error' = parked.error
    /\ exit_code' = parked.exit_code
    /\ calls' = parked.calls /\ done' = parked.done
    /\ looked_up' = parked.looked_up
    /\ user_info' = parked.user_info /\ group_info' = parked.group_info
    /\ resources' = parked.resources /\ budget_info' = parked.budget_info
    /\ monitoring' = parked.monitoring /\ config_files' = parked.config_files
    /\ UNCHANGED <<config, script, tester, stores>>

NextRace ==
    \/ StartRaceRun
    \/ Switch
    \/ SValidate \/ SCreateUser \/ SCreateAccessKey \/ SAttachUserPolicy
    \/ SAddUserToGroup \/ SCreateGroup \/ SAttachGroupPolicy \/ SAddUserToGroupAgain

SpecRace == Init /\ [][NextRace]_vars

----------------------------------------------------------------------------
\* Properties.

Called(op) == \E i \in 1..Len(calls) : calls[i].op = op
CalledWith(op, out) ==
    \E i \in 1..Len(calls) : calls[i].op = op /\ calls[i].out = out
\* the process has ended in the constructor: no stage was entered and the
\* orchestrator has caught nothing
ConstructorFailed == status = "failed" /\ error = "none"
PastValidation ==
    /\ status # "idle" /\ pc \notin {"s_validate", "u_validate"}
    /\ ~ConstructorFailed
ChecksRejected ==
    error \in {"ValueError: invalid department", "ValueError: invalid access tier"}

\* C1: unified onboarding: when the lookup of the derived username finds the
\* user in the identity store, the run has failed with the duplicate-user error
\* and admin_create_user is never issued.
C1_UnifiedDuplicateAborts ==
    (script = "unified" /\ CalledWith("cognito.admin_get_user", "ok"))
        => /\ status = "failed"
           /\ error = "ValueError: user already exists"
           /\ ~Called("cognito.admin_create_user")

\* C2: single-path onboarding: a validation that runs while the derived
\* username is in the identity store aborts the run there: the only call issued
\* is the lookup, no create call follows, and every store (the existing user
\* record included) is left as it was.
C2_SingleDuplicateAborts ==
    /\ [](  (script = "single" /\ error = "ValueError: user already exists")
            => /\ status = "failed"
               /\ calls = <<[op |-> "iam.get_user", out |-> "ok"]>>
               /\ done = <<>>)
    /\ [][ (script = "single" /\ pc = "s_validate"
              /\ UserExists(iamUsers, SingleUsername(email)))
           => /\ status' = "failed" /\ pc' = "aborted"
              /\ \A i \in 1..Len(calls') : calls'[i].op = "iam.get_user"
              /\ stores' = stores ]_vars

C2_Witness ==
    /\ script = "single" /\ status = "failed"
    /\ error = "ValueError: user already exists"
    /\ UserExists(iamUsers, SingleUsername(email))

\* C3 as stated: unified validation gets past the department and tier checks
\* exactly when the department is configured and the tier is in the
\* access_tiers list of that department.
C3_UnifiedTierListOnly ==
    (script = "unified" /\ PastValidation)
        => (~ChecksRejected <=>
               /\ department \in DOMAIN config.departments
               /\ "access_tiers" \in DOMAIN config.departments[department]
               /\ access_tier \in config.departments[department].access_tiers)

\* C3 amended: unified validation gets past the department and tier checks
\* exactly when the department is configured and the tier is in its
\* access_tiers list, or the department has no access_tiers entry and the tier
\* is sandbox; otherwise the run fails with a validation error before any call.
C3_UnifiedTierListOrDefault ==
    (script = "unified" /\ PastValidation)
        => /\ ~ChecksRejected <=>
                 /\ department \in DOMAIN config.departments
                 /\ IF "access_tiers" \in DOMAIN config.departments[department]
                    THEN access_tier \in config.departments[department].access_tiers
                    ELSE access_tier = "sandbox"
           /\ ChecksRejected => (status = "failed" /\ calls = <<>> /\ done = <<>>)

C3_Witness ==
    /\ script = "unified" /\ PastValidation /\ ~ChecksRejected
    /\ department = "research" /\ access_tier = "sandbox"
    /\ Called("cognito.admin_get_user")

\* C4: single-path onboarding: a request whose department is not configured,
\* or whose tier is not in the access_tiers list of its department, fails with
\* a validation error before any call is issued.
C4_SingleTierAllowedByDepartment ==
    (/\ script = "single" /\ PastValidation
     /\ \/ department \notin DOMAIN config.departments
        \/ /\ "access_tiers" \in DOMAIN config.departments[department]
           /\ access_tier \notin config.departments[department].access_tiers)
        => (status = "failed" /\ ChecksRejected /\ calls = <<>>)

BucketOps == {"s3.create_bucket", "s3.put_bucket_versioning", "s3.put_bucket_policy"}
Failed(i) == calls[i].out # "ok"
LastCall == calls[Len(calls)]
BucketStepHasFailed == \E i \in 1..Len(calls) : calls[i].op \in BucketOps /\ Failed(i)
BudgetHasFailed == \E i \in 1..Len(calls) : calls[i].op = "budgets.create_budget" /\ Failed(i)

\* C5: single-path onboarding: a failed create_bucket, put_bucket_versioning,
\* put_bucket_policy or create_budget never aborts the run: the bucket
\* reference (the budget name) of the stage's result is None, the only thing
\* that can still abort the run is the key creation, and a run that reaches
\* its end has gone through every stage and reports success.
C5_SingleSoftFailures ==
    script = "single" =>
        /\ BucketStepHasFailed =>
              /\ resources # Unset /\ resources.s3_bucket = None
              /\ status = "failed" =>
                    LastCall = [op |-> "kms.create_key", out |-> "error"]
        /\ BudgetHasFailed =>
              /\ budget_info # Unset /\ budget_info.budget_name = None
              /\ status # "failed"
              /\ "budget" \in {done[k] : k \in 1..Len(done)}
        /\ pc = "finished" => (status = "success" /\ done = SingleStages)

C5_Witness ==
    /\ script = "single" /\ status = "success"
    /\ BucketStepHasFailed /\ BudgetHasFailed
    /\ resources.s3_bucket = None /\ budget_info.budget_name = None

\* C6: unified onboarding: after a failed create_budget the individual-budget
\* reference is None and the run does not fail.
C6_UnifiedBudgetFailureIsSoft ==
    (script = "unified" /\ BudgetHasFailed)
        => (budget_info.budget_name = None /\ status # "failed")

\* the place of each stage, and of each call, in the order the claim gives
PhaseRank(stage) ==
    CASE stage = "validate"                              -> 1
      [] stage \in {"identity", "group"}                 -> 2
      [] stage \in {"resources", "budget", "governance"} -> 3
      [] stage = "monitoring"                            -> 4
      [] stage = "config"                                -> 5
      [] stage = "notify"                                -> 6
      [] stage = "log"                                   -> 7
IdentityOps ==
    {"iam.create_user", "iam.create_access_key", "iam.attach_user_policy",
     "iam.add_user_to_group", "iam.create_group", "iam.attach_group_policy",
     "cognito.admin_create_user", "cognito.admin_add_user_to_group"}
OpRank(op) ==
    CASE op \in {"iam.get_user", "cognito.admin_get_user"} -> 1
      [] op \in IdentityOps                                -> 2
      [] op = "s3.put_object onboarding-event"             -> 7
      [] OTHER                                             -> 3
LastRank == IF done = <<>> THEN 0 ELSE PhaseRank(done[Len(done)])

\* C7: the stages of a run return in the order validation, identity,
\* resource/governance provisioning (with the budget), monitoring, config
\* emission, notification, event logging, none skipped and none twice; a call
\* is issued only when every earlier phase has returned; the success result
\* exists only once the event-logging stage has returned.
C7_StageOrder ==
    /\ done # <<>> => PhaseRank(done[1]) = 1
    /\ \A i \in 1..(Len(done) - 1) :
          /\ PhaseRank(done[i]) <= PhaseRank(done[i + 1])
          /\ PhaseRank(done[i + 1]) <= PhaseRank(done[i]) + 1
    /\ \A i, j \in 1..Len(done) : i < j => done[i] # done[j]
    /\ calls # <<>> => OpRank(LastCall.op) <= LastRank + 1
    /\ status = "success" => (LastRank = 7 /\ done[Len(done)] = "log")

C7_Witness ==
    /\ status = "success" /\ Len(done) = 8 /\ Len(calls) >= 8

LaterStages ==
    {"resources", "budget", "governance", "monitoring", "config", "notify", "log"}
AbortedAt(i) ==
    /\ status = "failed"
    /\ i = Len(calls)
    /\ \A k \in 1..Len(done) : done[k] \notin LaterStages
\* the one failure the identity stage handles itself
HandledGroupNotFound(i) ==
    /\ script = "single"
    /\ calls[i] = [op |-> "iam.add_user_to_group", out |-> "NoSuchEntity"]
    /\ \A j \in 1..(i - 1) : calls[j].op # "iam.add_user_to_group"

\* C8 as stated: every failed call of the identity stage is the last call of
\* its run: the run has failed and no later stage has run.
C8_IdentityFailureAborts ==
    \A i \in 1..Len(calls) :
        (calls[i].op \in IdentityOps /\ Failed(i)) => AbortedAt(i)

\* C8 amended: every failed call of the identity stage is the last call of its
\* run (the run has failed and no later stage has run), except the first
\* add_user_to_group of the single-path script when it fails with
\* group-not-found, which the stage handles by creating the group and adding
\* the user again.
C8_IdentityFailureAbortsUnlessGroupMissing ==
    \A i \in 1..Len(calls) :
        (calls[i].op \in IdentityOps /\ Failed(i) /\ ~HandledGroupNotFound(i))
            => AbortedAt(i)

C8_Witness ==
    /\ status = "failed" /\ calls # <<>>
    /\ LastCall = [op |-> "cognito.admin_add_user_to_group", out |-> "ResourceNotFound"]
    /\ UserExists(cognitoUsers, UnifiedUsername(email))

\* C9: a run that aborts undoes nothing: the aborting step changes no store,
\* and whatever this run created (user, access key, policy attachment, bucket)
\* is in its store when the run has failed.
C9_NoRollback ==
    /\ []( status = "failed" =>
            /\ CalledWith("iam.create_user", "ok")
                 => [name |-> SingleUsername(email), email |-> email,
                     department |-> department, access_tier |-> access_tier]
                    \in iamUsers
            /\ CalledWith("iam.create_access_key", "ok")
                 => \E k \in accessKeys : k.user = SingleUsername(email)
            /\ CalledWith("iam.attach_user_policy", "ok")
                 => \E a \in userPolicies : a[1] = SingleUsername(email)
            /\ CalledWith("s3.create_bucket", "ok") => BucketName(email) \in buckets
            /\ CalledWith("cognito.admin_create_user", "ok")
                 => UserExists(cognitoUsers, UnifiedUsername(email)) )
    /\ [][ status' = "failed" => stores' = stores ]_vars

C9_Witness ==
    /\ status = "failed"
    /\ calls # <<>> /\ LastCall = [op |-> "kms.create_key", out |-> "error"]
    /\ UserExists(iamUsers, SingleUsername(email))
    /\ BucketName(email) \in buckets

\* C10 as stated: no operation is attempted twice in one run.
C10_NoOperationRepeated ==
    \A i, j \in 1..Len(calls) : i < j => calls[i].op # calls[j].op

\* C10 amended: no stage is entered twice, and the only operation attempted
\* twice in one run is add_user_to_group of the single-path script: once more,
\* after its first attempt failed with group-not-found and the group was
\* created; no operation is attempted three times and no other failed
\* operation is attempted again.
C10_OnlyGroupAddRepeated ==
    /\ \A i, j \in 1..Len(done) : i < j => done[i] # done[j]
    /\ \A i, j \in 1..Len(calls) :
          (i < j /\ calls[i].op = calls[j].op)
              => /\ script = "single"
                 /\ calls[i] = [op |-> "iam.add_user_to_group", out |-> "NoSuchEntity"]
                 /\ j = i + 3
                 /\ calls[i + 1] = [op |-> "iam.create_group", out |-> "ok"]
                 /\ calls[i + 2] = [op |-> "iam.attach_group_policy", out |-> "ok"]

C10_Witness ==
    /\ status = "success"
    /\ \E i, j \in 1..Len(calls) :
          i < j /\ calls[i].op = "iam.add_user_to_group"
                /\ calls[j].op = "iam.add_user_to_group"

LookupOps == {"iam.get_user", "cognito.admin_get_user"}

\* C11: under --dry-run only the validation stage runs: the only call a dry
\* run issues is the lookup of the derived username, the run ends at the
\* validation (passed or failed), and no step of it changes the identity
\* store, the object storage, the key service or the budget service.
C11_DryRunOnlyValidates ==
    /\ [](dry_run => /\ \A i \in 1..Len(calls) : calls[i].op \in LookupOps
                     /\ pc \in {"s_validate", "u_validate", "exited", "aborted"}
                     /\ \A i \in 1..Len(done) : done[i] = "validate")
    /\ [][dry_run' => stores' = stores]_vars

C11_Witness ==
    /\ dry_run /\ status = "validated" /\ calls # <<>>
    /\ iamUsers \cup cognitoUsers # {}

\* the request of the current run is one the specification calls invalid:
\* unknown department, tier outside the department's allowed set, or derived
\* username already in the identity store
DerivedUserExists ==
    IF script = "single"
    THEN UserExists(iamUsers, SingleUsername(email))
    ELSE UserExists(cognitoUsers, UnifiedUsername(email))
RequestInvalid ==
    \/ ~DepartmentValid(config, department)
    \/ access_tier \notin AllowedTiers(config, department)
    \/ DerivedUserExists

\* C12: the process exits 0 when a dry run's validation passed or the
\* onboarding succeeded and 1 when the run failed; in particular a dry run
\* that has ended for an invalid request (unknown department, disallowed
\* tier, or already-existing user) has exited 1.
C12_ExitCodes ==
    /\ status \in {"validated", "success"} => exit_code = 0
    /\ status = "failed" => exit_code = 1
    /\ (dry_run /\ status \in {"validated", "failed"} /\ RequestInvalid)
          => exit_code = 1

DashChar(ch) == IF ch \in {"@", "."} THEN "-" ELSE ch
ExpectedUsername(sc, e) ==
    LET d == [i \in 1..Len(e) |-> DashChar(e[i])]
    IN  IF sc = "single" THEN <<"bcce-">> \o d ELSE d
DevAcmeCom == <<"d", "e", "v", "@", "a", "c", "m", "e", ".", "c", "o", "m">>

\* C13: the username is a function of the email alone: every user record either
\* script has created, under whatever department, tier and store contents,
\* and the username the identity stage returns, is the email with each '@'
\* and '.' replaced by '-' (prefixed 'bcce-' in the single-path script);
\* dev@acme.com gives dev-acme-com in the unified script.
C13_UsernameFromEmail ==
    /\ \A u \in iamUsers : u.name = ExpectedUsername("single", u.email)
    /\ \A u \in cognitoUsers : u.name = ExpectedUsername("unified", u.email)
    /\ user_info # Unset => user_info.username = ExpectedUsername(script, email)
    /\ UnifiedUsername(DevAcmeCom)
          = <<"d", "e", "v", "-", "a", "c", "m", "e", "-", "c", "o", "m">>

C13_Witness ==
    /\ script = "unified"
    /\ \E u, v \in cognitoUsers :
          /\ u.email = <<"d", ".", "a", "@", "c">>
          /\ v.department # u.department /\ v.access_tier # u.access_tier

\* C14: every budget either onboarder has created carries exactly two
\* notification rules, on actual spend, with thresholds 80 and 100 percent, in
\* that order, whatever the tier and department of the request.
C14_TwoThresholds ==
    \A b \in budgets :
        /\ Len(b.notifications) = 2
        /\ \A i \in 1..2 : b.notifications[i].type = "ACTUAL"
        /\ b.notifications[1].threshold = 80
        /\ b.notifications[2].threshold = 100

C14_Witness ==
    \E b, c \in budgets : b.amount # c.amount /\ b.tag_value # c.tag_value

ManagerAddresses ==
    {ManagerAddress(config, d) : d \in RequestDepartments} \cup {ManagerEmail}

\* C15: in every budget either onboarder has created, the 80% rule notifies
\* the user alone and the 100% rule notifies the user and then a manager
\* address.
C15_Subscribers ==
    \A b \in budgets :
        /\ b.notifications[1].subscribers = <<b.tag_value>>
        /\ Len(b.notifications[2].subscribers) = 2
        /\ b.notifications[2].subscribers[1] = b.tag_value
        /\ b.notifications[2].subscribers[2] \in ManagerAddresses

IssuedNow(op) ==
    /\ Len(calls') = Len(calls) + 1
    /\ calls'[Len(calls')].op = op

\* C16: single-path identity provisioning: once _create_iam_user has
\* returned, the group named from department and tier exists and the new user
\* is a member of it; create_group is issued only right after the first
\* add_user_to_group reported the group missing, and never while the group
\* exists.
C16_GroupOnFirstUse ==
    /\ []((script = "single" /\ user_info # Unset)
            => /\ GroupName(department, access_tier) \in iamGroups
               /\ <<GroupName(department, access_tier), SingleUsername(email)>>
                     \in iamMembers)
    /\ [](\A i \in 1..Len(calls) :
            calls[i].op = "iam.create_group"
               => /\ i > 1
                  /\ calls[i - 1] = [op |-> "iam.add_user_to_group",
                                     out |-> "NoSuchEntity"]
                  /\ \A j \in 1..(i - 2) : calls[j].op # "iam.add_user_to_group")
    /\ [][IssuedNow("iam.create_group")
            => GroupName(department, access_tier) \notin iamGroups]_vars

C16_Witness ==
    /\ script = "single" /\ status = "success"
    /\ ~Called("iam.create_group")
    /\ <<GroupName(department, access_tier), SingleUsername(email)>> \in iamMembers

CalledIn(cs, op, out) ==
    \E i \in 1..Len(cs) : cs[i].op = op /\ cs[i].out = out
CreatedGroupIn(cs) ==
    CalledIn(cs, "iam.create_group", "ok") \/ CalledIn(cs, "iam.create_group", "error")
SameGroupRace ==
    /\ parked # Unset
    /\ email # parked.email
    /\ GroupName(department, access_tier)
          = GroupName(parked.department, parked.access_tier)
    /\ CreatedGroupIn(calls) /\ CreatedGroupIn(parked.calls)

\* C18: group creation is not protected against races: whenever two runs in
\* flight for different emails have both issued create_group for the same
\* group name, one of them had its create_group rejected and has failed in
\* the identity stage, its user left without the group.
C18_RaceOnGroupCreation ==
    SameGroupRace
        => \E r \in {Locals, parked} :
              /\ CalledIn(r.calls, "iam.create_group", "error")
              /\ r.status = "failed" /\ r.pc = "aborted"
              /\ r.error = "ClientError: iam.create_group"
              /\ r.done = <<"validate">>
              /\ <<GroupName(r.department, r.access_tier), SingleUsername(r.email)>>
                    \notin iamMembers

\* both runs saw the group missing, both issued create_group, the first was
\* served and the second rejected
C18_Witness ==
    /\ SameGroupRace
    /\ CalledIn(calls, "iam.add_user_to_group", "NoSuchEntity")
    /\ CalledIn(parked.calls, "iam.add_user_to_group", "NoSuchEntity")
    /\ CalledIn(parked.calls, "iam.create_group", "ok")
    /\ CalledIn(calls, "iam.create_group", "error")
    /\ status = "failed"
    /\ GroupName(department, access_tier) \in iamGroups
    /\ UserExists(iamUsers, SingleUsername(email))

RenderedAt(t) ==
    IF script = "single"
    THEN SingleConfigFiles(email, user_info, resources, access_tier, t)
    ELSE UnifiedConfigFiles(user_info, resources, access_tier, t)

\* C19: config emission is a function of the provisioning outputs alone: the
\* config object and the environment block a run has rendered are what the
\* emitter renders from the same email, identity info, resource info and tier
\* at any other clock reading.
C19_ConfigEmissionPure ==
    config_files # Unset => \A t \in Times : config_files = RenderedAt(t)

ExpectedLimit(sc, tier) ==
    CASE tier = "sandbox"     -> 100
      [] tier = "integration" -> 500
      [] tier = "production"  -> IF sc = "single" THEN 2000 ELSE 1000
      [] OTHER                -> 100
ExpectedAmount(sc, tier) ==
    CASE tier = "sandbox"     -> <<"1", "0", "0">>
      [] tier = "integration" -> <<"5", "0", "0">>
      [] tier = "production"  -> IF sc = "single" THEN <<"2", "0", "0", "0">>
                                                  ELSE <<"1", "0", "0", "0">>
      [] OTHER                -> <<"1", "0", "0">>
RunBudgetName ==
    IF script = "single" THEN SingleBudgetName(email) ELSE UnifiedBudgetName(email)

\* C20: the amount of a budget is fixed by the tier alone: a run whose
\* create_budget was accepted has created its budget with amount 100 for
\* sandbox, 500 for integration, 2000 (single-path) or 1000 (unified) for
\* production and 100 for any tier outside the table, and reports that limit,
\* whatever the department and its configured budget_limit.
C20_AmountByTier ==
    CalledWith("budgets.create_budget", "ok")
        => /\ \E b \in budgets : b.name = RunBudgetName
           /\ \A b \in budgets :
                 b.name = RunBudgetName
                    => b.amount = ExpectedAmount(script, access_tier)
           /\ budget_info.budget_limit = ExpectedLimit(script, access_tier)

C20_Witness ==
    /\ CalledWith("budgets.create_budget", "ok")
    /\ access_tier = "admin" /\ department = "engineering"
    /\ \E b \in budgets : b.name = RunBudgetName /\ b.amount = <<"1", "0", "0">>

ObjectWrites == {"s3.put_object analytics-config", "s3.put_object onboarding-event"}
NoAnalyticsBucket == script = "unified" /\ config.analytics_bucket = None

\* C21: unified onboarding with no analytics bucket configured: no run issues
\* an object-storage write and no object is stored; the analytics-tracking
\* step and the event-logging step each hand on to the next step with the run
\* still running and the stores untouched, and the result returned after the
\* event-logging step has status success.
C21_NoBucketNoWrites ==
    /\ [](NoAnalyticsBucket
            => /\ \A i \in 1..Len(calls) : calls[i].op \notin ObjectWrites
               /\ objects = {})
    /\ [][(NoAnalyticsBucket /\ pc = "u_analytics")
            => (pc' = "u_custom_metrics" /\ status' = "running"
                  /\ calls' = calls /\ stores' = stores)]_vars
    /\ [][(NoAnalyticsBucket /\ pc = "u_log")
            => (pc' = "return" /\ status' = "running"
                  /\ calls' = calls /\ stores' = stores)]_vars
    /\ [][(NoAnalyticsBucket /\ pc = "return")
            => (status' = "success" /\ exit_code' = 0)]_vars

C21_Witness ==
    /\ NoAnalyticsBucket /\ status = "success"
    /\ done[Len(done)] = "log"
    /\ UserExists(cognitoUsers, UnifiedUsername(email))

MonitoringPcs == {"s_monitoring", "u_monitoring"}
MonitoringIsFrame ==
    [][(pc \in MonitoringPcs)
         => (calls' = calls /\ stores' = stores /\ status' = "running")]_vars
ExpectedDashboard == <<"BCCE-">> \o ExpectedUsername("unified", email)

\* C22 as stated: the monitoring stage of either script issues no call and
\* changes no store, and the object it returns carries a metrics namespace
\* and a dashboard name fixed by the arguments.
C22_MonitoringNamespaceAndDashboard ==
    /\ MonitoringIsFrame
    /\ [](monitoring # Unset
            => /\ "metric_namespace" \in DOMAIN monitoring
               /\ monitoring.metric_namespace = <<"BCCE/Developer/", department>>
               /\ monitoring.dashboard_name = ExpectedDashboard)

\* C22 amended: the monitoring stage of either script issues no call and
\* changes no store; the single-path object carries the namespace
\* BCCE/Developer/<department> and the dashboard name BCCE-<dashed email>;
\* the unified object carries that dashboard name, the three arguments and
\* the cost-alert flag of the tier, and no namespace at all.
C22_MonitoringFrameAndFields ==
    /\ MonitoringIsFrame
    /\ []((script = "single" /\ monitoring # Unset)
            => monitoring = [metric_namespace |-> <<"BCCE/Developer/", department>>,
                             dashboard_name |-> ExpectedDashboard,
                             alerting_enabled |-> TRUE])
    /\ []((script = "unified" /\ monitoring # Unset)
            => monitoring = [user_email |-> email, department |-> department,
                             access_tier |-> access_tier,
                             dashboard_name |-> ExpectedDashboard,
                             cost_alerts |-> access_tier # "sandbox"])

C22_Witness ==
    /\ script = "unified" /\ pc = "u_config" /\ monitoring # Unset
    /\ access_tier = "integration" /\ cognitoUsers # {}

----------------------------------------------------------------------------
\* The integration tester (test-layered-integration.py): its own process,
\* which reads the deployment and leaves the onboarders' state alone.

onboarder == <<config, script, runs, parked, email, department, access_tier,
               dry_run, looked_up, pc, status, error, exit_code, calls, done, results, stores>>

\* test_phases of run_all_tests, in the listed order
test_phases ==
    << "Infrastructure Discovery", "Cognito Integration", "Department Groups",
       "BCCE Governance Resources", "Budget Controls", "Analytics Infrastructure",
       "Unified Onboarding", "Configuration Generation", "Monitoring and Alerts",
       "Integration Validation" >>

\* what a call of a phase's test function can do: return a truthy value,
\* return a falsy value, or raise
PhaseOutcomes == {"true", "false", "raises"}

\* the entry a phase appends to test_results
PhaseEntry(phase_name, outcome) ==
    IF outcome = "raises"
       THEN [phase |-> phase_name, status |-> "ERROR", error |-> "Exception"]
       ELSE [phase |-> phase_name,
             status |-> IF outcome = "true" THEN "PASSED" ELSE "FAILED",
             details |-> <<>>]

\* LayeredIntegrationTester(args.config): the constructor asks the account
\* for its identity, and an exception there ends the process with a traceback
TesterStart ==
    /\ tester_pc = "idle"
    /\ \E out \in {"ok", "error"} :
          IF out = "ok"
             THEN tester_pc' = "phases" /\ UNCHANGED tester_exit
             ELSE tester_pc' = "exited" /\ tester_exit' = ExitCode(TRUE)
    /\ UNCHANGED <<test_results, failed_tests, report, onboarder>>

\* one turn of the loop of run_all_tests, abandoning the loop at an exception
RunPhaseAbortingOnError ==
    /\ tester_pc = "phases"
    /\ Len(test_results) < Len(test_phases)
    /\ LET phase_name == test_phases[Len(test_results) + 1] IN
       \E outcome \in PhaseOutcomes :
          /\ test_results' = Append(test_results, PhaseEntry(phase_name, outcome))
          /\ failed_tests' = IF outcome = "true" THEN failed_tests
                             ELSE Append(failed_tests, phase_name)
          /\ tester_pc' = IF outcome = "raises" \/ Len(test_results') = Len(test_phases)
                           THEN "report" ELSE tester_pc
    /\ UNCHANGED <<report, tester_exit, onboarder>>

\* one turn of the loop of run_all_tests: the next phase of the list runs
\* inside its own try block
RunPhase ==
    /\ tester_pc = "phases"
    /\ Len(test_results) < Len(test_phases)
    /\ LET phase_name == test_phases[Len(test_results) + 1] IN
       \E outcome \in PhaseOutcomes :
          /\ test_results' = Append(test_results, PhaseEntry(phase_name, outcome))
          /\ failed_tests' = IF outcome = "true" THEN failed_tests
                             ELSE Append(failed_tests, phase_name)
          /\ tester_pc' = IF Len(test_results') = Len(test_phases)
                           THEN "report" ELSE tester_pc
    /\ UNCHANGED <<report, tester_exit, onboarder>>

StatusIs(S) == SelectSeq(test_results, LAMBDA r : r.status \in S)

\* _generate_test_report: counts the entries by status, writes the report
\* file and returns the report; an exception of the write leaves the process
TestReport ==
    [ test_summary |-> [ total_tests |-> Len(test_results),
                         passed |-> Len(StatusIs({"PASSED"})),
                         failed |-> Len(StatusIs({"FAILED", "ERROR"})) ],
      test_results |-> test_results,
      integration_status |-> IF Len(StatusIs({"FAILED", "ERROR"})) = 0
                             THEN "READY" ELSE "NEEDS_ATTENTION" ]

GenerateTestReport ==
    /\ tester_pc = "report"
    /\ \E out \in {"ok", "error"} :
          IF out = "ok"
             THEN report' = TestReport /\ tester_pc' = "main"
                  /\ UNCHANGED tester_exit
             ELSE tester_pc' = "exited" /\ tester_exit' = ExitCode(TRUE)
                  /\ UNCHANGED report
    /\ UNCHANGED <<test_results, failed_tests, onboarder>>

\* main: sys.exit(0) for a READY report, sys.exit(1) otherwise
TesterExit ==
    /\ tester_pc = "main"
    /\ tester_exit' = IF report.integration_status = "READY" THEN 0 ELSE 1
    /\ tester_pc' = "exited"
    /\ UNCHANGED <<test_results, failed_tests, report, onboarder>>

NextTests == TesterStart \/ RunPhase \/ GenerateTestReport \/ TesterExit

SpecTests == Init /\ [][NextTests]_vars

PhaseFailed(i) == test_results[i].status \in {"FAILED", "ERROR"}

\* C23: the tester runs the ten phases in the listed order whatever an
\* earlier phase returned or raised, each phase leaving exactly one entry;
\* a phase is named in failed_tests exactly when its entry is FAILED or
\* ERROR; the report is READY exactly when no entry is FAILED or ERROR, and
\* the process exits 0 exactly when the report is READY.
C23_TesterRunsAllPhases ==
    /\ Len(test_results) <= Len(test_phases)
    /\ \A i \in 1..Len(test_results) : test_results[i].phase = test_phases[i]
    /\ \A i \in 1..Len(test_results) :
          PhaseFailed(i) <=>
             \E j \in 1..Len(failed_tests) : failed_tests[j] = test_phases[i]
    /\ report # Unset =>
          /\ Len(test_results) = Len(test_phases)
          /\ report.test_results = test_results
          /\ report.integration_status = "READY" <=>
                \A i \in 1..Len(test_results) : ~PhaseFailed(i)
    /\ tester_pc = "exited" =>
          (tester_exit = 0 <=>
              report # Unset /\ report.integration_status = "READY")

\* a run in which the first phase raised and the second returned false, the
\* last one still ran and passed, and the process left with status 1
C23_Witness ==
    /\ tester_pc = "exited" /\ tester_exit = 1 /\ report # Unset
    /\ test_results[1].status = "ERROR"
    /\ test_results[2].status = "FAILED"
    /\ test_results[Len(test_phases)].status = "PASSED"
    /\ failed_tests = SubSeq(test_phases, 1, 2)

----------------------------------------------------------------------------
CreatedUserNow ==
    IF script = "single" THEN CalledWith("iam.create_user", "ok")
    ELSE CalledWith("cognito.admin_create_user", "ok")
AssignedGroupNow ==
    IF script = "single" THEN CalledWith("iam.add_user_to_group", "ok")
    ELSE CalledWith("cognito.admin_add_user_to_group", "ok")
UsersOfScript == IF script = "single" THEN iamUsers ELSE cognitoUsers
MembersOfScript == IF script = "single" THEN iamMembers ELSE cognitoMembers
GroupOfRun ==
    IF script = "single" THEN GroupName(department, access_tier) ELSE department

\* C24: within one run the duplicate check, the user creation and the group
\* assignment all name the same user: the user the run has created for its
\* email carries the name the check looked up, the membership the run has
\* added is that name's, and in the single-path script the policy of the
\* run's bucket names that user as its principal; no membership or bucket
\* policy in the stores names a user that was not created.
C24_OneUsernamePerRun ==
    /\ looked_up # None =>
          /\ CreatedUserNow =>
                /\ \E u \in UsersOfScript : u.email = email
                /\ \A u \in UsersOfScript : u.email = email => u.name = looked_up
          /\ AssignedGroupNow => <<GroupOfRun, looked_up>> \in MembersOfScript
          /\ CalledWith("s3.put_bucket_policy", "ok") =>
                /\ \E bp \in bucketPolicies : bp[1] = BucketName(email)
                /\ \A bp \in bucketPolicies :
                      bp[1] = BucketName(email) => bp[2] = <<"user/">> \o looked_up
    /\ \A m \in MembersOfScript : \E u \in UsersOfScript : u.name = m[2]
    /\ \A bp \in bucketPolicies : \E u \in iamUsers : bp[2] = <<"user/">> \o u.name

\* a single-path run for an address with a dot before the '@' has looked the name up,
\* created the user, put it into its group and written the bucket policy
C24_Witness ==
    /\ script = "single" /\ status = "success"
    /\ email = <<"d", ".", "a", "@", "c">>
    /\ looked_up = SingleUsername(email)
    /\ CreatedUserNow /\ AssignedGroupNow
    /\ CalledWith("s3.put_bucket_policy", "ok")

----------------------------------------------------------------------------
\* the user of the run's email is in the identity store and this run has not
\* created it: an earlier run did, whether it went on to succeed or aborted
LeftByEarlierRun ==
    /\ script = "single" /\ status # "idle"
    /\ UserExists(iamUsers, SingleUsername(email))
    /\ ~CalledWith("iam.create_user", "ok")

\* C25 as stated: a single-path run for an email whose user an earlier run
\* has left behind stays in the validation or has failed there with the
\* user-already-exists error.
C25_RerunFailsAsDuplicate ==
    LeftByEarlierRun =>
       \/ pc = "s_validate"
       \/ /\ status = "failed" /\ done = <<>>
          /\ error = "ValueError: user already exists"

\* C25, amended: such a run never gets past the validation: it issues no
\* call but the lookup and completes no stage, and it ends failed: with the
\* user-already-exists error when the lookup has answered, with the lookup's
\* own error when the lookup failed, with the department or tier error when
\* the repeated request does not pass those checks, and with no stage
\* entered at all when the onboarder could not be built.
C25_RerunStopsAtValidation ==
    LeftByEarlierRun =>
       /\ pc \in {"s_validate", "aborted"}
       /\ done = <<>>
       /\ \A i \in 1..Len(calls) : calls[i].op = "iam.get_user"
       /\ pc = "aborted" =>
             /\ status = "failed"
             /\ CASE calls = <<>> -> ChecksRejected \/ ConstructorFailed
                  [] CalledWith("iam.get_user", "ok") ->
                        error = "ValueError: user already exists"
                  [] OTHER -> error = "ClientError: iam.get_user"

\* the second run for an email whose first run created the user and then
\* aborted at the access key: it has failed at the lookup as a duplicate
C25_Witness ==
    /\ LeftByEarlierRun /\ runs = 2
    /\ \A k \in accessKeys : k.user # SingleUsername(email)
    /\ iamMembers = {}
    /\ pc = "aborted" /\ error = "ValueError: user already exists"
    /\ calls = <<[op |-> "iam.get_user", out |-> "ok"]>>

----------------------------------------------------------------------------
\* C26: single-path resource provisioning: whenever the resources of the run
\* report the bucket reference as absent, no bucket of the run's user is in
\* object storage: a bucket created before the versioning or the policy step
\* failed is not left behind.
C26_AbsentBucketNotLeftBehind ==
    (script = "single" /\ resources # Unset /\ resources.s3_bucket = None)
       => BucketName(email) \notin buckets

----------------------------------------------------------------------------
DerivedUsername ==
    IF script = "single" THEN SingleUsername(email) ELSE UnifiedUsername(email)
ReportedGroup ==
    IF script = "single" THEN user_info.group_name ELSE group_info.group_name
GroupsOfScript == IF script = "single" THEN iamGroups ELSE cognitoGroups

\* C27: a run that returns 'success' has created the user of the derived
\* username itself, the user is in the identity store with the request's
\* email, department and tier, and it is a member of the group the result
\* reports, which exists.
C27_SuccessMeansUserInGroup ==
    status = "success" =>
       /\ CreatedUserNow
       /\ \E u \in UsersOfScript :
             /\ u.name = DerivedUsername /\ u.email = email
             /\ u.department = department /\ u.access_tier = access_tier
       /\ user_info.username = DerivedUsername
       /\ ReportedGroup \in GroupsOfScript
       /\ <<ReportedGroup, DerivedUsername>> \in MembersOfScript

\* the second run of the unified script has returned 'success' while the
\* user of the first run is in the pool as well
C27_Witness ==
    /\ script = "unified" /\ status = "success" /\ runs = 2
    /\ Cardinality(cognitoUsers) = 2
    /\ <<department, UnifiedUsername(email)>> \in cognitoMembers

----------------------------------------------------------------------------
\* C28: unified validation fails closed on lookup errors: once admin_get_user
\* has failed with an error other than user-not-found, the validation has
\* raised: the run is aborted with the lookup as its only call, and
\* admin_create_user is not issued.
C28_UnifiedLookupFailsClosed ==
    (script = "unified" /\ CalledWith("cognito.admin_get_user", "error")) =>
       /\ status = "failed" /\ pc = "aborted"
       /\ Len(calls) = 1
       /\ ~Called("cognito.admin_create_user")

----------------------------------------------------------------------------
\* the department words, letter by letter, as the email is held
Spelled(w) ==
    CASE w = "engineering" -> <<"e", "n", "g", "i", "n", "e", "e", "r", "i", "n", "g">>
      [] w = "research"    -> <<"r", "e", "s", "e", "a", "r", "c", "h">>
      [] w = "marketing"   -> <<"m", "a", "r", "k", "e", "t", "i", "n", "g">>
      [] OTHER             -> <<w>>

\* C29: the department in the client configuration the run has emitted is the
\* department of the request, in both scripts.
C29_ConfigDepartmentIsRequested ==
    config_files # Unset =>
       IF script = "single"
       THEN config_files.bcce_config.department = Spelled(department)
       ELSE config_files.unified_config.department = department

====
